---- MODULE Spec2Model ----
(***************************************************************************)
(* Model of the Deep Origin Data Hub backup: backup_script.py (the export  *)
(* orchestrator, four phases followed by the s5cmd sync) and               *)
(* backup/eln_backup.py (class ELNBackup: the per-item fetches and the     *)
(* file-export phase download_all_files).                                  *)
(*                                                                         *)
(* The main thread is modelled by pc/phase; every ThreadPoolExecutor by    *)
(* the per-item states st[p], its thread count threads[p] and its limit    *)
(* poolN[p].  Remote identifiers are opaque, so they are the numbers       *)
(* 1..MaxItems; they never coincide with a manifest's file name.           *)
(*                                                                         *)
(* Granularity: a listing call, the manifest write and the construction of *)
(* the pool are one step of the main thread (no worker is alive then);     *)
(* each submit, each iteration of the as_completed loop and each remote    *)
(* response of a worker is a step of its own.  A fetch begins executing    *)
(* when a worker takes its work item off the FIFO queue.  as_completed     *)
(* may hand out futures that are already finished in any order.            *)
(***************************************************************************)
EXTENDS Integers, Sequences, FiniteSets, TLC

\* ---------------------------------------------------------------- bounds
\* longest listing a listing call returns; remote ids are 1..MaxItems
MaxItems == 2
\* largest content_length a file record reports (smallest is 1)
MaxSize == 2

\* ------------------------------------------------------- program constants
\* backup_script.py:25  min(8, max_workers)
WorkerCap == 8
\* eln_backup.py:135  n_workers: int = 8
DefaultNWorkers == 8

\* hosts the run is tried on: os.cpu_count() (backup_script.py:24)
CpuCounts == {1, 2, 16}

Phases == 1..4
\* backup_script.py:90  "# 4) Files"
FilePhase == 4
Ids == 1..MaxItems

VARIABLES
    cpus,           \* os.cpu_count() of the host
    tokens,         \* auth.tokens_exist()
    pc,             \* position of the main thread
    phase,          \* phase the main thread is in (1..4)
    listed,         \* listed[p]: the listing call of phase p has returned
    listing,        \* listing[p]: ids in the order the listing call returned them
    content_length, \* content_length[id] of the listed file records
    subm,           \* subm[p]: ids in the order their fetches are submitted
    st,             \* st[p][i]: state of the i-th submitted fetch of phase p
    threads,        \* threads[p]: worker threads the pool of phase p has started
    poolN,          \* poolN[p]: max_workers the pool of phase p was built with (0: no pool yet)
    collected,      \* collected[p]: fetches whose result the collection loop has consumed
    raised,         \* the error that left the collection loop: [phase, item] or NoError
    atError,        \* st[phase] as it was when that error was observed
    disk,           \* the file system: path -> content
    preexisting,    \* file ids present in <outdir>/files when the run started
    urlReqs,        \* file ids a CreateFileDownloadUrl POST was issued for
    getReqs,        \* file ids a streamed GET was issued for
    syncCalls,      \* number of `s5cmd sync` invocations
    exitCode,       \* exit status of the process (-1 while it runs)
    opened,         \* file fetches that have opened their local path for writing
    described,      \* database ids api.describe_row was called for (a row of theirs)
    syncNote        \* what the sync step did: "none", "skipped" (diagnostic printed),
                    \* "synced" or "sync_failed" (s5cmd ran, its exit status)

vars == <<cpus, tokens, pc, phase, listed, listing, content_length, subm, st,
          threads, poolN, collected, raised, atError, disk, preexisting,
          urlReqs, getReqs, syncCalls, exitCode, opened, described, syncNote>>

NoError == [phase |-> 0, item |-> 0, kind |-> "none"]

\* ------------------------------------------------------------- helpers
Min(a, b) == IF a < b THEN a ELSE b

Range(s) == {s[i] : i \in 1..Len(s)}

\* all sequences over S of length at most n
SeqsUpTo(S, n) == UNION {[1..k -> S] : k \in 0..n}

\* variant of DirOf: the three timestamped exports share one directory
DirOfFlat(p) == IF p = 4 THEN "files" ELSE "workspaces"

\* ------------------------------------------------------------ file system
\* backup_script.py:38-41
DirOf(p) ==
    CASE p = 1 -> "workspaces"
      [] p = 2 -> "databases"
      [] p = 3 -> "notebooks"
      [] OTHER -> "files"

\* backup_script.py:52,66,79 and eln_backup.py:147
ManifestPath(p) ==
    [dir |-> DirOf(p), id |-> 0,
     ext |-> CASE p = 1 -> "workspaces.csv"
               [] p = 2 -> "databases.csv"
               [] p = 3 -> "notebooks.csv"
               [] OTHER -> "file_metadata.csv"]

\* variant of ExtOf: every export is written as <id>.json
ExtOfJson(p) == IF p = 4 THEN "" ELSE ".json"

\* backup_script.py:60,74,87 and eln_backup.py:159
ExtOf(p) ==
    CASE p = 1 -> ".json"
      [] p = 2 -> ".csv"
      [] p = 3 -> ".json"
      [] OTHER -> ""

ArtifactPath(p, id) == [dir |-> DirOf(p), id |-> id, ext |-> ExtOf(p)]

\* contents
ManifestOf(rows) == [kind |-> "manifest", id |-> 0, rows |-> rows]
Content(kind, id) == [kind |-> kind, id |-> id, rows |-> <<>>]
PreviousManifest == [kind |-> "previous", id |-> 0, rows |-> <<>>]
PreviousFile(id) == Content("previous", id)

\* os.path.exists
Exists(path) == path \in DOMAIN disk

\* open(path, "w") followed by a write: creates or replaces
WriteFile(d, path, content) == (path :> content) @@ d

\* ------------------------------------------------------------ the pool
Terminal(s) == s \in {"ok", "empty", "skipped", "failed"}
Executing(p) ==
    {i \in 1..Len(st[p]) : st[p][i] \in {"running", "resolving", "downloading", "writing"}}
Queued(p) == {i \in 1..Len(st[p]) : st[p][i] = "queued"}
Failed(p) == {i \in 1..Len(st[p]) : st[p][i] = "failed"}
Items(p) == 1..Len(st[p])

\* backup_script.py:24-25
max_workers == Min(WorkerCap, cpus)

\* the max_workers each phase hands to its ThreadPoolExecutor:
\* backup_script.py:54,68,81 pass max_workers; backup_script.py:91 calls
\* download_all_files(file_dir), so eln_backup.py:135's default applies
PoolSize(p) == IF p = FilePhase THEN DefaultNWorkers ELSE max_workers

\* variant of AdjustThreadCount that forgets the max_workers test
AdjustThreadCountUnbounded(t, n, busy) == {t + 1}

\* ThreadPoolExecutor._adjust_thread_count on submit: a thread is started
\* unless an idle one took the idle semaphore, and never beyond max_workers.
\* t threads exist, busy of them have or will have work.  Whether an idle
\* thread has released the semaphore yet is a matter of timing.
AdjustThreadCount(t, n, busy) ==
    IF t >= n THEN {t}
    ELSE IF t > busy THEN {t, t + 1}
    ELSE {t + 1}

\* a worker thread is free to take the next work item
HasFreeWorker(p) == Cardinality(Executing(p)) < threads[p]

\* the work queue is FIFO: the next work item is the oldest queued one
IsQueueHead(p, i) ==
    /\ i \in Queued(p)
    /\ \A j \in Queued(p) : i <= j

\* variant of PoolDrained: shutdown(wait=True, cancel_futures=True), which
\* waits for the running work items only and drops the queued ones
PoolDrainedCancel(p) == Executing(p) = {}

\* Executor.__exit__ -> shutdown(wait=True): returns when every submitted
\* work item has run (nothing is cancelled)
PoolDrained(p) == \A i \in Items(p) : Terminal(st[p][i])

\* variant of LoopDone: the loop stops after the first future it was handed
LoopDoneEarly(p) == collected[p] # {}

\* the as_completed loop has yielded every future
LoopDone(p) == collected[p] = Items(p)

\* ------------------------------------------------------------ the listings
\* api.list_rows(row_type=...): a finite sequence of distinct descriptors
RowListings == {[i \in 1..n |-> i] : n \in 0..MaxItems}

\* api.list_files(): file records; an id may be listed more than once
FileListings == SeqsUpTo(Ids, MaxItems)

\* the content_length column of the listed records (0: id not listed)
FileSizes == [Ids -> 0..MaxSize]

\* variant of ManifestRows: the rows come out in reverse order
ManifestRowsReversed(p, ids) == [i \in 1..Len(ids) |-> ids[Len(ids) + 1 - i]]

\* DataFrame.to_csv: one row per listed item, in the frame's order
ManifestRows(p, ids) == ids

\* variant of SortedOrders: sort_values with ascending=True
SortedOrdersAscending(ids, cl) ==
    LET n == Len(ids)
        Perms == {f \in [1..n -> 1..n] : \A i, j \in 1..n : i # j => f[i] # f[j]}
    IN  {[i \in 1..n |-> ids[f[i]]] : f \in
            {g \in Perms : \A i, j \in 1..n : i < j => cl[ids[g[i]]] <= cl[ids[g[j]]]}}

\* sort_values("content_length", ascending=False): every order of the
\* records that is non-increasing in content_length (the sort is not stable)
SortedOrders(ids, cl) ==
    LET n == Len(ids)
        Perms == {f \in [1..n -> 1..n] : \A i, j \in 1..n : i # j => f[i] # f[j]}
    IN  {[i \in 1..n |-> ids[f[i]]] : f \in
            {g \in Perms : \A i, j \in 1..n : i < j => cl[ids[g[i]]] >= cl[ids[g[j]]]}}

\* ------------------------------------------------------------ initial state
\* <outdir>/files is shared across runs: it holds what earlier runs left
InitialDisks ==
    {[path \in {ArtifactPath(FilePhase, id) : id \in pre}
                 \cup (IF man THEN {ManifestPath(FilePhase)} ELSE {})
        |-> IF path.id = 0 THEN PreviousManifest ELSE PreviousFile(path.id)]
     : <<pre, man>> \in {pm \in (SUBSET Ids) \X BOOLEAN : pm[1] # {} => pm[2]}}

Init ==
    /\ cpus \in CpuCounts
    /\ tokens \in BOOLEAN
    /\ pc = "auth"
    /\ phase = 1
    /\ listed = [p \in Phases |-> FALSE]
    /\ listing = [p \in Phases |-> <<>>]
    /\ content_length = [id \in Ids |-> 0]
    /\ subm = [p \in Phases |-> <<>>]
    /\ st = [p \in Phases |-> <<>>]
    /\ threads = [p \in Phases |-> 0]
    /\ poolN = [p \in Phases |-> 0]
    /\ collected = [p \in Phases |-> {}]
    /\ raised = NoError
    /\ atError = <<>>
    /\ disk \in InitialDisks
    /\ preexisting = {id \in Ids : ArtifactPath(FilePhase, id) \in DOMAIN disk}
    /\ urlReqs = {}
    /\ getReqs = {}
    /\ syncCalls = 0
    /\ exitCode = -1
    /\ opened = {}
    /\ described = {}
    /\ syncNote = "none"

\* ------------------------------------------------------------ main thread
\* backup_script.py:28-29
Authenticate ==
    /\ pc = "auth"
    /\ tokens' = TRUE
    /\ pc' = "list"
    /\ UNCHANGED <<opened, described, syncNote, cpus, phase, listed, listing, content_length, subm, st, threads,
                   poolN, collected, raised, atError, disk, preexisting, urlReqs,
                   getReqs, syncCalls, exitCode>>

\* the uncaught exception ends the script: no later statement runs
Raise(p, i, kind) == [phase |-> p, item |-> i, kind |-> kind]

\* phases 1-3, backup_script.py:50-55, 64-69, 77-82: list, write the manifest,
\* build the pool; df["id"] of an empty frame raises KeyError inside the with
ListRows(p) ==
    /\ pc = "list"
    /\ phase = p
    /\ p # FilePhase
    /\ \E rows \in RowListings :
        /\ listed' = [listed EXCEPT ![p] = TRUE]
        /\ listing' = [listing EXCEPT ![p] = rows]
        /\ disk' = WriteFile(disk, ManifestPath(p), ManifestOf(ManifestRows(p, rows)))
        /\ poolN' = [poolN EXCEPT ![p] = PoolSize(p)]
        /\ IF Len(rows) = 0
           THEN /\ pc' = "aborted"
                /\ raised' = Raise(p, 0, "KeyError")
                /\ exitCode' = 1
                /\ UNCHANGED <<subm, st>>
           ELSE /\ pc' = "submit"
                /\ subm' = [subm EXCEPT ![p] = rows]
                /\ st' = [st EXCEPT ![p] = [i \in 1..Len(rows) |-> "unsubmitted"]]
                /\ UNCHANGED <<raised, exitCode>>
    /\ UNCHANGED <<opened, described, syncNote, cpus, tokens, phase, content_length, threads, collected, atError,
                   preexisting, urlReqs, getReqs, syncCalls>>

\* phase 4, eln_backup.py:142-156: set_index("id") of an empty frame raises
\* KeyError before the manifest is written
ListFiles ==
    /\ pc = "list"
    /\ phase = FilePhase
    /\ \E ids \in FileListings, cl \in FileSizes :
        /\ \A id \in Ids : cl[id] = 0 <=> id \notin Range(ids)
        /\ listed' = [listed EXCEPT ![FilePhase] = TRUE]
        /\ listing' = [listing EXCEPT ![FilePhase] = ids]
        /\ IF Len(ids) = 0
           THEN /\ pc' = "aborted"
                /\ raised' = Raise(FilePhase, 0, "KeyError")
                /\ exitCode' = 1
                /\ UNCHANGED <<subm, st, disk, poolN, content_length>>
           ELSE /\ pc' = "submit"
                /\ content_length' = cl
                /\ disk' = WriteFile(disk, ManifestPath(FilePhase),
                                     ManifestOf(ManifestRows(FilePhase, ids)))
                /\ poolN' = [poolN EXCEPT ![FilePhase] = PoolSize(FilePhase)]
                /\ \E order \in SortedOrders(ids, cl) :
                      subm' = [subm EXCEPT ![FilePhase] = order]
                /\ st' = [st EXCEPT ![FilePhase] = [i \in 1..Len(ids) |-> "unsubmitted"]]
                /\ UNCHANGED <<raised, exitCode>>
    /\ UNCHANGED <<opened, described, syncNote, cpus, tokens, phase, threads, collected, atError,
                   preexisting, urlReqs, getReqs, syncCalls>>

\* executor.submit, backup_script.py:55,69,82 and eln_backup.py:158-159:
\* fetches are submitted one by one in subm's order, all before collection
Submit ==
    /\ pc = "submit"
    /\ LET p == phase
           i == CHOOSE k \in Items(p) :
                    /\ st[p][k] = "unsubmitted"
                    /\ \A j \in Items(p) : st[p][j] = "unsubmitted" => k <= j
       IN  /\ st' = [st EXCEPT ![p][i] = "queued"]
           /\ \E t \in AdjustThreadCount(threads[p], poolN[p],
                                         Cardinality(Executing(p)) + Cardinality(Queued(p))) :
                  threads' = [threads EXCEPT ![p] = t]
           /\ pc' = IF i = Len(st[p]) THEN "collect" ELSE "submit"
    /\ UNCHANGED <<opened, described, syncNote, cpus, tokens, phase, listed, listing, content_length, subm, poolN,
                   collected, raised, atError, disk, preexisting, urlReqs, getReqs,
                   syncCalls, exitCode>>

\* ------------------------------------------------------------ the workers
\* a worker thread takes the oldest queued work item and begins to run it
CanBegin(p, i) ==
    /\ poolN[p] > 0
    /\ IsQueueHead(p, i)
    /\ HasFreeWorker(p)

\* outcomes of a running fetch.  get_row_notebook_json (eln_backup.py:68-71):
\* the payload, or ValueError on a non-200 status.  get_full_database_export
\* (eln_backup.py:28-38): the joined table, an empty table when
\* get_dataframe raises TypeError, or the error of a failed remote call.
FetchOutcomes(p) == IF p = 2 THEN {"ok", "empty", "failed"} ELSE {"ok", "failed"}

\* eln_backup.py:29-34: api.describe_row is called for the rows of the table
\* get_dataframe returned (a table has at least one row): never after its
\* TypeError; a fetch may fail in get_dataframe or in a describe_row call.
\* The set of values `rows` (was describe_row called) may take.
DescribesRows(p, outcome) ==
    IF p # 2 \/ outcome = "empty" THEN {FALSE}
    ELSE IF outcome = "ok" THEN {TRUE}
    ELSE BOOLEAN

\* eln_backup.py:27,48: the fetch begins with assert auth.tokens_exist()
BeginFetch(p, i) ==
    /\ p # FilePhase
    /\ CanBegin(p, i)
    /\ st' = [st EXCEPT ![p][i] = IF tokens THEN "running" ELSE "failed"]
    /\ UNCHANGED <<opened, described, syncNote, cpus, tokens, pc, phase, listed, listing, content_length, subm,
                   threads, poolN, collected, raised, atError, disk, preexisting,
                   urlReqs, getReqs, syncCalls, exitCode>>

EndFetch(p, i) ==
    /\ p # FilePhase
    /\ i \in Items(p)
    /\ st[p][i] = "running"
    /\ \E outcome \in FetchOutcomes(p) : \E rows \in DescribesRows(p, outcome) :
        /\ st' = [st EXCEPT ![p][i] = outcome]
        /\ described' = IF rows THEN described \cup {subm[p][i]} ELSE described
    /\ UNCHANGED <<opened, syncNote, cpus, tokens, pc, phase, listed, listing,
                   content_length, subm, threads, poolN, collected, raised, atError,
                   disk, preexisting, urlReqs, getReqs, syncCalls, exitCode>>

\* variant of SkipDownload: download_file called with skip_if_exists=False
SkipDownloadNever(path) == FALSE

\* variant of SkipDownload: the download is skipped without looking at the disk
SkipDownloadAlways(path) == TRUE

\* eln_backup.py:124  skip_if_exists and os.path.exists(local_path)
SkipDownload(path) == Exists(path)

\* download_file, eln_backup.py:122-127, and get_download_url up to its POST
\* (eln_backup.py:81-102)
BeginDownload(i) ==
    /\ CanBegin(FilePhase, i)
    /\ LET id == subm[FilePhase][i]
       IN  IF SkipDownload(ArtifactPath(FilePhase, id))
           THEN /\ st' = [st EXCEPT ![FilePhase][i] = "skipped"]
                /\ UNCHANGED urlReqs
           ELSE IF tokens
           THEN /\ st' = [st EXCEPT ![FilePhase][i] = "resolving"]
                /\ urlReqs' = urlReqs \cup {id}
           ELSE /\ st' = [st EXCEPT ![FilePhase][i] = "failed"]
                /\ UNCHANGED urlReqs
    /\ UNCHANGED <<opened, described, syncNote, cpus, tokens, pc, phase, listed, listing, content_length, subm,
                   threads, poolN, collected, raised, atError, disk, preexisting,
                   getReqs, syncCalls, exitCode>>

HttpStatuses == {200, 403}

\* eln_backup.py:102-106 and 128: the POST returns; on 200 the GET is issued
UrlResponse(i) ==
    /\ i \in Items(FilePhase)
    /\ st[FilePhase][i] = "resolving"
    /\ \E status \in HttpStatuses :
        IF status = 200
        THEN /\ st' = [st EXCEPT ![FilePhase][i] = "downloading"]
             /\ getReqs' = getReqs \cup {subm[FilePhase][i]}
        ELSE /\ st' = [st EXCEPT ![FilePhase][i] = "failed"]
             /\ UNCHANGED getReqs
    /\ UNCHANGED <<opened, described, syncNote, cpus, tokens, pc, phase, listed, listing, content_length, subm,
                   threads, poolN, collected, raised, atError, disk, preexisting,
                   urlReqs, syncCalls, exitCode>>

\* variant of GetResponse: the local file is opened before the status of
\* the GET is looked at
GetResponseOpenFirst(i) ==
    /\ i \in Items(FilePhase)
    /\ st[FilePhase][i] = "downloading"
    /\ \E status \in HttpStatuses :
        /\ st' = [st EXCEPT ![FilePhase][i] = IF status = 200 THEN "writing" ELSE "failed"]
        /\ opened' = opened \cup {i}
        /\ disk' = WriteFile(disk, ArtifactPath(FilePhase, subm[FilePhase][i]),
                             Content("partial", subm[FilePhase][i]))
    /\ UNCHANGED <<described, syncNote, cpus, tokens, pc, phase, listed, listing, content_length, subm,
                   threads, poolN, collected, raised, atError, preexisting,
                   urlReqs, getReqs, syncCalls, exitCode>>

\* eln_backup.py:129-131: non-200 raises; on 200 open(local_path, "wb")
\* creates or truncates the file
GetResponse(i) ==
    /\ i \in Items(FilePhase)
    /\ st[FilePhase][i] = "downloading"
    /\ \E status \in HttpStatuses :
        IF status = 200
        THEN /\ st' = [st EXCEPT ![FilePhase][i] = "writing"]
             /\ opened' = opened \cup {i}
             /\ disk' = WriteFile(disk, ArtifactPath(FilePhase, subm[FilePhase][i]),
                                  Content("partial", subm[FilePhase][i]))
        ELSE /\ st' = [st EXCEPT ![FilePhase][i] = "failed"]
             /\ UNCHANGED <<disk, opened>>
    /\ UNCHANGED <<described, syncNote, cpus, tokens, pc, phase, listed, listing, content_length, subm,
                   threads, poolN, collected, raised, atError, preexisting,
                   urlReqs, getReqs, syncCalls, exitCode>>

\* another worker has the same path open for writing
OtherWriter(i) ==
    \E j \in Items(FilePhase) :
        /\ j # i
        /\ st[FilePhase][j] = "writing"
        /\ subm[FilePhase][j] = subm[FilePhase][i]

\* eln_backup.py:132: shutil.copyfileobj ends, or the stream breaks and leaves
\* a partial file.  With a second writer on the path the bytes on disk
\* depend on which of the two truncated last.
CopyEnd(i) ==
    /\ i \in Items(FilePhase)
    /\ st[FilePhase][i] = "writing"
    /\ LET path == ArtifactPath(FilePhase, subm[FilePhase][i])
           whole == Content("bytes", subm[FilePhase][i])
       IN  \E done \in BOOLEAN :
            IF done
            THEN /\ st' = [st EXCEPT ![FilePhase][i] = "ok"]
                 /\ disk' \in (IF OtherWriter(i) THEN {disk} ELSE {})
                                \cup {WriteFile(disk, path, whole)}
            ELSE /\ st' = [st EXCEPT ![FilePhase][i] = "failed"]
                 /\ UNCHANGED disk
    /\ UNCHANGED <<opened, described, syncNote, cpus, tokens, pc, phase, listed, listing, content_length, subm,
                   threads, poolN, collected, raised, atError, preexisting,
                   urlReqs, getReqs, syncCalls, exitCode>>

\* ------------------------------------------------------------ collection
\* what future.result() returns for fetch i of phase p
Payload(p, i) ==
    Content(CASE p = 2 /\ st[p][i] = "empty" -> "empty"
              [] p = 2 /\ st[p][i] # "empty" -> "table"
              [] OTHER -> "json",
            subm[p][i])

\* variant of Sink: an empty table is not written
SinkSkipEmpty(d, p, i) ==
    IF p = FilePhase \/ st[p][i] = "empty" THEN d
    ELSE WriteFile(d, ArtifactPath(p, subm[p][i]), Payload(p, i))

\* variant of Sink: the k-th result handed out by as_completed is written
\* under the k-th submitted id (ids zipped with the completion order)
SinkByPosition(d, p, i) ==
    IF p = FilePhase THEN d
    ELSE WriteFile(d, ArtifactPath(p, subm[p][Cardinality(collected[p]) + 1]), Payload(p, i))

\* the body of the collection loop after future.result() returned:
\* backup_script.py:59-61, 73-74, 86-88; eln_backup.py:162 keeps nothing
Sink(d, p, i) ==
    IF p = FilePhase THEN d
    ELSE WriteFile(d, ArtifactPath(p, subm[p][i]), Payload(p, i))

\* variant of Collect that logs a failed fetch and goes on with the loop
CollectSwallow(i) ==
    /\ pc = "collect"
    /\ i \in Items(phase) \ collected[phase]
    /\ Terminal(st[phase][i])
    /\ collected' = [collected EXCEPT ![phase] = @ \cup {i}]
    /\ disk' = IF st[phase][i] = "failed" THEN disk ELSE Sink(disk, phase, i)
    /\ UNCHANGED <<opened, described, syncNote, cpus, tokens, pc, phase, listed, listing, content_length, subm, st,
                   threads, poolN, raised, atError, preexisting, urlReqs, getReqs,
                   syncCalls, exitCode>>

\* as_completed yields a finished future; future.result() returns its payload
\* or re-raises its error, which leaves the loop and the with block
Collect(i) ==
    /\ pc = "collect"
    /\ i \in Items(phase) \ collected[phase]
    /\ Terminal(st[phase][i])
    /\ IF st[phase][i] = "failed"
       THEN /\ raised' = Raise(phase, i, "fetch")
            /\ atError' = st[phase]
            /\ pc' = "drain"
            /\ UNCHANGED <<collected, disk>>
       ELSE /\ collected' = [collected EXCEPT ![phase] = @ \cup {i}]
            /\ disk' = Sink(disk, phase, i)
            /\ UNCHANGED <<raised, atError, pc>>
    /\ UNCHANGED <<opened, described, syncNote, cpus, tokens, phase, listed, listing, content_length, subm, st,
                   threads, poolN, preexisting, urlReqs, getReqs, syncCalls, exitCode>>

\* variant of ExitPool: the pool is left without waiting (no with block, no
\* complete collection loop)
ExitPoolEarly ==
    /\ pc = "collect"
    /\ IF phase = FilePhase
       THEN pc' = "sync" /\ UNCHANGED phase
       ELSE pc' = "list" /\ phase' = phase + 1
    /\ UNCHANGED <<opened, described, syncNote, cpus, tokens, listed, listing, content_length, subm, st, threads,
                   poolN, collected, raised, atError, disk, preexisting, urlReqs,
                   getReqs, syncCalls, exitCode>>

\* the loop ends and the with block exits (its worker threads are joined):
\* the next phase, or the sync step
ExitPool ==
    /\ pc = "collect"
    /\ LoopDone(phase)
    /\ PoolDrained(phase)
    /\ IF phase = FilePhase
       THEN pc' = "sync" /\ UNCHANGED phase
       ELSE pc' = "list" /\ phase' = phase + 1
    /\ threads' = [threads EXCEPT ![phase] = 0]
    /\ UNCHANGED <<opened, described, syncNote, cpus, tokens, listed, listing, content_length, subm, st,
                   poolN, collected, raised, atError, disk, preexisting, urlReqs,
                   getReqs, syncCalls, exitCode>>

\* the error leaves the with block once shutdown(wait=True) has returned,
\* and ends the script
Abort ==
    /\ pc = "drain"
    /\ PoolDrained(phase)
    /\ pc' = "aborted"
    /\ exitCode' = 1
    /\ threads' = [threads EXCEPT ![phase] = 0]
    /\ UNCHANGED <<opened, described, syncNote, cpus, tokens, phase, listed, listing, content_length, subm, st,
                   poolN, collected, raised, atError, disk, preexisting,
                   urlReqs, getReqs, syncCalls>>

\* exit statuses the s5cmd process may end with
ToolStatuses == {0, 1}

\* variant of Sync: the script exits with the exit status of s5cmd
SyncChecked ==
    /\ pc = "sync"
    /\ \E found \in BOOLEAN, status \in ToolStatuses :
        IF found
        THEN /\ syncCalls' = syncCalls + 1
             /\ syncNote' = IF status = 0 THEN "synced" ELSE "sync_failed"
             /\ exitCode' = status
        ELSE /\ UNCHANGED syncCalls
             /\ syncNote' = "skipped"
             /\ exitCode' = 1
    /\ pc' = "done"
    /\ UNCHANGED <<opened, described, cpus, tokens, phase, listed, listing,
                   content_length, subm, st, threads, poolN, collected, raised,
                   atError, disk, preexisting, urlReqs, getReqs>>

\* backup_script.py:95-99: os.system's return value is dropped and the
\* script runs off its end (exit status 0); without s5cmd it prints the
\* diagnostic and calls exit(1)
Sync ==
    /\ pc = "sync"
    /\ \E found \in BOOLEAN, status \in ToolStatuses :
        IF found
        THEN /\ syncCalls' = syncCalls + 1
             /\ syncNote' = IF status = 0 THEN "synced" ELSE "sync_failed"
             /\ exitCode' = 0
        ELSE /\ UNCHANGED syncCalls
             /\ syncNote' = "skipped"
             /\ exitCode' = 1
    /\ pc' = "done"
    /\ UNCHANGED <<opened, described, cpus, tokens, phase, listed, listing,
                   content_length, subm, st, threads, poolN, collected, raised,
                   atError, disk, preexisting, urlReqs, getReqs>>

Next ==
    \/ Authenticate
    \/ \E p \in Phases : ListRows(p)
    \/ ListFiles
    \/ Submit
    \/ \E p \in Phases, i \in 1..MaxItems : BeginFetch(p, i)
    \/ \E p \in Phases, i \in 1..MaxItems : EndFetch(p, i)
    \/ \E i \in 1..MaxItems : BeginDownload(i)
    \/ \E i \in 1..MaxItems : UrlResponse(i)
    \/ \E i \in 1..MaxItems : GetResponse(i)
    \/ \E i \in 1..MaxItems : CopyEnd(i)
    \/ \E i \in 1..MaxItems : Collect(i)
    \/ ExitPool
    \/ Abort
    \/ Sync

Spec == Init /\ [][Next]_vars

\* ------------------------------------------------- the core called directly
\* A caller other than backup_script.py calls ELNBackup.download_all_files
\* (eln_backup.py:134-162) itself: nothing has authenticated, so tokens may
\* be absent, and no earlier phase has run.  pc = "sync" stands for the
\* method having returned.
InitCore ==
    /\ cpus \in CpuCounts
    /\ tokens \in BOOLEAN
    /\ pc = "list"
    /\ phase = FilePhase
    /\ listed = [p \in Phases |-> FALSE]
    /\ listing = [p \in Phases |-> <<>>]
    /\ content_length = [id \in Ids |-> 0]
    /\ subm = [p \in Phases |-> <<>>]
    /\ st = [p \in Phases |-> <<>>]
    /\ threads = [p \in Phases |-> 0]
    /\ poolN = [p \in Phases |-> 0]
    /\ collected = [p \in Phases |-> {}]
    /\ raised = NoError
    /\ atError = <<>>
    /\ disk \in InitialDisks
    /\ preexisting = {id \in Ids : ArtifactPath(FilePhase, id) \in DOMAIN disk}
    /\ urlReqs = {}
    /\ getReqs = {}
    /\ syncCalls = 0
    /\ exitCode = -1
    /\ opened = {}
    /\ described = {}
    /\ syncNote = "none"

NextCore ==
    \/ ListFiles
    \/ Submit
    \/ \E i \in 1..MaxItems : BeginDownload(i)
    \/ \E i \in 1..MaxItems : UrlResponse(i)
    \/ \E i \in 1..MaxItems : GetResponse(i)
    \/ \E i \in 1..MaxItems : CopyEnd(i)
    \/ \E i \in 1..MaxItems : Collect(i)
    \/ ExitPool
    \/ Abort

SpecCore == InitCore /\ [][NextCore]_vars

\* ================================================================ claims
\* the main thread has left phase p (its with block has exited)
PhaseOver(p) == phase > p \/ (phase = p /\ pc \in {"aborted", "sync", "done"})

\* phase p completed without an error
PhaseSucceeded(p) == phase > p \/ (phase = p /\ pc \in {"sync", "done"})

\* fetch i of phase p has begun executing (a worker took it off the queue)
Began(p, i) == st[p][i] \notin {"unsubmitted", "queued"}

\* C1: in every phase and every reachable state the number of fetches
\* executing at once is at most the worker limit N the phase's pool was
\* built with (N in {1, 2, 8}), also with more items submitted than N.
C1_ConcurrencyBound ==
    \A p \in Phases :
        /\ poolN[p] \in {0, 1, 2, 8}
        /\ Cardinality(Executing(p)) <= poolN[p]

\* C1 witness: a pool is saturated (N fetches executing) while a further
\* submitted item waits in the queue.
C1_Witness ==
    \E p \in Phases :
        /\ poolN[p] > 0
        /\ Cardinality(Executing(p)) = poolN[p]
        /\ Queued(p) # {}

\* C2: every phase's pool is built with N = min(8, processing units), so no
\* phase, the file-export phase included, runs more fetches at once than the
\* host has processing units.
C2_WorkersWithinHost ==
    \A p \in Phases :
        /\ poolN[p] > 0 => poolN[p] = Min(8, cpus)
        /\ Cardinality(Executing(p)) <= cpus

\* C3: if exactly one fetch submitted in a phase raised, the phase has not
\* ended otherwise than by raising that fetch's error to the orchestrator;
\* when it has, every other fetch of the phase has finished executing, no
\* later phase has listed or fetched anything and the sync step has not run.
C3_ErrorPropagation ==
    \A p \in Phases : \A i \in Items(p) :
        (PhaseOver(p) /\ Failed(p) = {i}) =>
            /\ pc = "aborted"
            /\ phase = p
            /\ raised = Raise(p, i, "fetch")
            /\ \A j \in Items(p) : Terminal(st[p][j])
            /\ \A q \in Phases : q > p => (~listed[q] /\ poolN[q] = 0 /\ Items(q) = {})
            /\ syncCalls = 0

\* C3 witness: a phase before the last one was aborted by its single failed
\* fetch, and another of its fetches was still unfinished when the error was
\* observed and has succeeded since.
C3_Witness ==
    /\ pc = "aborted"
    /\ phase < FilePhase
    /\ Failed(phase) = {raised.item}
    /\ \E j \in Items(phase) : ~Terminal(atError[j]) /\ st[phase][j] = "ok"

\* C4 (as claimed): once the collector has observed the first failed fetch,
\* no fetch that had not begun executing ever begins executing.
C4_NoBeginAfterError ==
    [][pc = "drain" =>
          \A i \in Items(phase) :
              st[phase][i] = "queued" => st'[phase][i] = "queued"]_vars

\* C4 (amended): once the collector has observed the first failed fetch, no
\* further fetch is submitted, no finished fetch changes its outcome, and the
\* error leaves the phase only when every fetch that was executing or still
\* queued at that point has run to its end (queued fetches are not cancelled).
C4_DrainRunsQueued ==
    pc \in {"drain", "aborted"} /\ raised.kind = "fetch" =>
        /\ Len(atError) = Len(st[phase])
        /\ \A i \in Items(phase) :
            /\ atError[i] # "unsubmitted"
            /\ Terminal(atError[i]) => st[phase][i] = atError[i]
            /\ pc = "aborted" => Terminal(st[phase][i])

\* C4 witness: the phase was aborted, and a fetch that was still queued when
\* the error was observed has since been executed to success.
C4_Witness ==
    /\ pc = "aborted"
    /\ raised.kind = "fetch"
    /\ \E i \in Items(phase) : atError[i] = "queued" /\ st[phase][i] = "ok"

\* C5 (as claimed): when a phase is over, every item's outcome has been
\* handed to the collector: consumed by the sink, or raised as the error.
C5_EveryOutcomeCollected ==
    \A p \in Phases : PhaseOver(p) =>
        \A i \in Items(p) :
            /\ Terminal(st[p][i])
            /\ i \in collected[p] \/ raised = Raise(p, i, "fetch")

\* C5 (amended): every submitted item gets exactly one terminal outcome,
\* which never changes; the sink consumes only successful outcomes; a phase
\* that completes has handed every item's outcome to the sink; in a phase
\* aborted by a failed fetch every fetch has still run to its outcome, the
\* raised error is that of a failed fetch never handed to the sink, and the
\* sink has consumed nothing after the failure was observed, so the outcomes
\* not consumed by then are discarded.
C5_OutcomesUntilFirstError ==
    /\ [](\A p \in Phases :
            /\ \A i \in collected[p] : st[p][i] \in {"ok", "empty", "skipped"}
            /\ PhaseSucceeded(p) => collected[p] = Items(p)
            /\ (PhaseOver(p) /\ raised.phase = p /\ raised.kind = "fetch") =>
                  /\ \A i \in Items(p) : Terminal(st[p][i])
                  /\ st[p][raised.item] = "failed"
                  /\ raised.item \notin collected[p]
                  /\ \A i \in collected[p] : atError[i] \in {"ok", "empty", "skipped"})
    /\ [][\A p \in Phases : \A i \in Items(p) :
            Terminal(st[p][i]) => st'[p][i] = st[p][i]]_vars

\* C5 witness: a phase was aborted by a failed fetch while another fetch of
\* it, which finished successfully after the failure was observed, never
\* reached the sink.
C5_Witness ==
    /\ pc = "aborted"
    /\ raised.kind = "fetch"
    /\ \E i \in Items(phase) :
        /\ ~Terminal(atError[i])
        /\ st[phase][i] = "ok"
        /\ i \notin collected[phase]

\* the name the claim expects for item id of phase p
C6_Expected(p, id) ==
    [dir |-> CASE p = 1 -> "workspaces" [] p = 2 -> "databases"
               [] p = 3 -> "notebooks" [] OTHER -> "files",
     id |-> id,
     ext |-> CASE p = 2 -> ".csv" [] p = 4 -> "" [] OTHER -> ".json"]

\* C6: after a phase completed successfully its manifest has as many rows as
\* the listing returned items, and for every listed item exactly one detail
\* artifact bearing its id exists in the phase's directory, named <id>.json
\* (workspaces, notebook rows), <id>.csv (databases) or <id> (files).
C6_ManifestAndArtifacts ==
    \A p \in Phases : PhaseSucceeded(p) =>
        /\ Exists(ManifestPath(p))
        /\ disk[ManifestPath(p)].kind = "manifest"
        /\ Len(disk[ManifestPath(p)].rows) = Len(listing[p])
        /\ \A k \in 1..Len(listing[p]) :
            {path \in DOMAIN disk : path.dir = C6_Expected(p, 0).dir /\ path.id = listing[p][k]}
                = {C6_Expected(p, listing[p][k])}

\* C6 witness: all four phases completed, each over a listing of the longest
\* length, one file having been downloaded in this run.
C6_Witness ==
    /\ pc = "sync"
    /\ \A p \in Phases : Len(listing[p]) = MaxItems
    /\ \E i \in Items(FilePhase) : st[FilePhase][i] = "ok"

\* C7: for every file id whose local path existed when the run (hence the
\* file-export phase) started, no download-URL request and no GET is issued.
C7_SkipIfExists ==
    \A id \in preexisting : id \notin urlReqs /\ id \notin getReqs

\* C7 witness: the file-export phase completed over a listing holding a
\* file that was already present, skipped, and one that was not, downloaded.
C7_Witness ==
    /\ PhaseSucceeded(FilePhase)
    /\ \E i, j \in Items(FilePhase) :
        /\ subm[FilePhase][i] \in preexisting
        /\ st[FilePhase][i] = "skipped"
        /\ subm[FilePhase][j] \notin preexisting
        /\ st[FilePhase][j] = "ok"
        /\ subm[FilePhase][j] \in urlReqs \cap getReqs

\* number of occurrences of x in sequence s
Count(s, x) == Cardinality({k \in 1..Len(s) : s[k] = x})

\* C8: the file-export phase submits exactly the listed files, and for any
\* two of them A, B with size(A) > size(B), A is submitted no later than B
\* and A's fetch begins executing no later than B's.
C8_LargestFirst ==
    /\ \A id \in Ids : Count(subm[FilePhase], id) = Count(listing[FilePhase], id)
    /\ \A a, b \in Items(FilePhase) :
        content_length[subm[FilePhase][a]] > content_length[subm[FilePhase][b]] =>
            /\ a < b
            /\ st[FilePhase][b] # "unsubmitted" => st[FilePhase][a] # "unsubmitted"
            /\ Began(FilePhase, b) => Began(FilePhase, a)

\* C8 witness: the listing returned a smaller file before a larger one; the
\* larger one's fetch has begun while the smaller one is still queued.
C8_Witness ==
    /\ Len(listing[FilePhase]) = 2
    /\ content_length[listing[FilePhase][1]] < content_length[listing[FilePhase][2]]
    /\ \E a, b \in Items(FilePhase) :
        /\ subm[FilePhase][a] = listing[FilePhase][2]
        /\ subm[FilePhase][b] = listing[FilePhase][1]
        /\ Began(FilePhase, a)
        /\ st[FilePhase][b] = "queued"

\* phase q has begun: its listing call, its pool, a fetch or an artifact
C9_Started(q) ==
    \/ listed[q]
    \/ poolN[q] > 0
    \/ Items(q) # {}
    \/ \E path \in DOMAIN disk : path.dir = DirOf(q) /\ disk[path].kind # "previous"

\* C9: phases run strictly one after the other: nothing of a phase (listing
\* call, manifest, fetch) exists before every fetch of each earlier phase has
\* finished and its outcome has been collected, and fetches of two different
\* phases never execute at once.
C9_PhasesSequential ==
    \A p, q \in Phases : p < q =>
        /\ C9_Started(q) =>
              /\ listed[p]
              /\ \A i \in Items(p) : Terminal(st[p][i]) /\ i \in collected[p]
        /\ ~(Executing(p) # {} /\ Executing(q) # {})

\* C9 witness: a fetch of the file phase executes after the three earlier
\* phases each ran the longest listing to its end.
C9_Witness ==
    /\ Executing(FilePhase) # {}
    /\ \A p \in 1..3 : Len(st[p]) = MaxItems /\ collected[p] = Items(p)

\* C10: whenever a fetch of a phase has been submitted or a detail artifact
\* written by the phase exists, the phase's manifest exists and holds one row
\* per listed item in the order the listing call returned them.
C10_ManifestFirst ==
    \A p \in Phases :
        (\/ \E i \in Items(p) : st[p][i] # "unsubmitted"
         \/ \E path \in DOMAIN disk :
               path.dir = DirOf(p) /\ path.id # 0 /\ disk[path].kind # "previous")
        => /\ Exists(ManifestPath(p))
           /\ disk[ManifestPath(p)] = ManifestOf(listing[p])

\* C10 witness: a file fetch is executing, submitted in an order that differs
\* from the listing's, while the manifest holds the rows in listing order.
C10_Witness ==
    /\ Executing(FilePhase) # {}
    /\ subm[FilePhase] # listing[FilePhase]
    /\ Exists(ManifestPath(FilePhase))
    /\ disk[ManifestPath(FilePhase)].rows = listing[FilePhase]

\* rows (file ids) are in non-increasing order of content_length
Descending(rows) ==
    \A a, b \in 1..Len(rows) :
        a < b => content_length[rows[a]] >= content_length[rows[b]]

\* C11 (as claimed): the file-metadata manifest written by the file-export
\* phase lists its records in descending content_length order.
C11_ManifestDescending ==
    (listed[FilePhase] /\ Len(listing[FilePhase]) > 0) =>
        Descending(disk[ManifestPath(FilePhase)].rows)

\* C11 (amended): the file-metadata manifest lists its records in the order
\* the listing call returned them (it is written before the sort); only the
\* order in which the files are dispatched is descending in content_length.
C11_ManifestListingOrder ==
    (listed[FilePhase] /\ Len(listing[FilePhase]) > 0) =>
        /\ Exists(ManifestPath(FilePhase))
        /\ disk[ManifestPath(FilePhase)].kind = "manifest"
        /\ disk[ManifestPath(FilePhase)].rows = listing[FilePhase]
        /\ Descending(subm[FilePhase])

\* C11 witness: the file-export phase completed over a listing that returned
\* a smaller file before a larger one; the manifest keeps that order while
\* the larger file was dispatched first.
C11_Witness ==
    /\ PhaseSucceeded(FilePhase)
    /\ Len(listing[FilePhase]) = 2
    /\ content_length[listing[FilePhase][1]] < content_length[listing[FilePhase][2]]
    /\ disk[ManifestPath(FilePhase)].rows = listing[FilePhase]
    /\ subm[FilePhase] = <<listing[FilePhase][2], listing[FilePhase][1]>>

\* every fetch of phase p was submitted, ran without error and had its
\* result consumed by the collection loop
AllExported(p) ==
    /\ listed[p]
    /\ Len(st[p]) = Len(listing[p])
    /\ collected[p] = Items(p)
    /\ \A i \in Items(p) : st[p][i] \in {"ok", "empty", "skipped"}

\* C12: the sync step is attempted once and only after all four phases
\* completed without error.  Without the tool the script prints the skip
\* diagnostic and exits 1, and the step leaves every artifact as it was;
\* with the tool s5cmd is invoked once and the script exits 0 whatever
\* status s5cmd ended with.
C12_SyncStep ==
    /\ [](/\ syncCalls <= 1
          /\ (syncNote # "none") <=> (pc = "done")
          /\ pc \in {"sync", "done"} =>
                 (raised = NoError /\ \A p \in Phases : AllExported(p))
          /\ pc = "sync" => (exitCode = -1 /\ syncCalls = 0)
          /\ syncNote = "none" => syncCalls = 0
          /\ syncNote = "skipped" => (exitCode = 1 /\ syncCalls = 0)
          /\ syncNote \in {"synced", "sync_failed"} => (exitCode = 0 /\ syncCalls = 1))
    /\ [][pc = "sync" => (pc' = "done" /\ disk' = disk)]_vars

\* C12 witness: s5cmd ran and ended with a non-zero status, and the script
\* has exited 0.
C12_Witness ==
    /\ pc = "done"
    /\ syncNote = "sync_failed"
    /\ syncCalls = 1
    /\ exitCode = 0

\* C13 (as claimed): every remote call of the core operations, the file
\* listing of download_all_files included, is preceded by a check that the
\* tokens exist: with the tokens absent no remote request is issued.
C13_TokensBeforeRemote ==
    ~tokens => (~listed[FilePhase] /\ urlReqs = {} /\ getReqs = {})

\* file fetches that opened the local path of file id
Openers(id) == {i \in opened : subm[FilePhase][i] = id}

\* C14: when the download-URL POST or the streamed GET answers with a
\* non-200 status, download_file raises (the fetch fails) and the local
\* path is neither created nor written: the failing step leaves the disk
\* as it is, a path is only ever opened by a fetch whose POST and GET both
\* answered 200, and a path no fetch opened is absent (or still holds what
\* an earlier run left), so a later run does not skip that id.
C14_NoBytesOnHttpError ==
    /\ [](/\ \A i \in opened : /\ subm[FilePhase][i] \in urlReqs
                               /\ subm[FilePhase][i] \in getReqs
                               /\ st[FilePhase][i] \in {"writing", "ok", "failed"}
          /\ \A id \in Ids : Openers(id) = {} =>
                IF id \in preexisting
                THEN disk[ArtifactPath(FilePhase, id)] = PreviousFile(id)
                ELSE ~Exists(ArtifactPath(FilePhase, id)))
    /\ [][\A i \in Items(FilePhase) :
            (st[FilePhase][i] \in {"resolving", "downloading"}
                /\ st'[FilePhase][i] = "failed")
            => (disk' = disk /\ opened' = opened)]_vars

\* C14 witness: the GET of a file answered non-200: its fetch has failed
\* without opening the path, the phase is aborted and the path is absent.
C14_Witness ==
    /\ pc = "aborted"
    /\ phase = FilePhase
    /\ \E i \in Items(FilePhase) :
        /\ st[FilePhase][i] = "failed"
        /\ raised = Raise(FilePhase, i, "fetch")
        /\ i \notin opened
        /\ subm[FilePhase][i] \in getReqs
        /\ ~Exists(ArtifactPath(FilePhase, subm[FilePhase][i]))

\* <database_dir>/<id>.csv
C15_TablePath(id) == [dir |-> "databases", id |-> id, ext |-> ".csv"]

\* C15: a database whose tabular fetch raised TypeError is a success
\* carrying an empty table: no describe_row call is made for it, it is never
\* the error that aborts the phase, once collected its (empty) <id>.csv is
\* on disk, and a database phase none of whose fetches failed completes with
\* the table of every listed database written.
C15_EmptyTableIsSuccess ==
    /\ \A i \in Items(2) : st[2][i] = "empty" =>
        /\ subm[2][i] \notin described
        /\ raised # Raise(2, i, "fetch")
        /\ i \in collected[2] =>
              /\ Exists(C15_TablePath(subm[2][i]))
              /\ disk[C15_TablePath(subm[2][i])] = Content("empty", subm[2][i])
    /\ (PhaseOver(2) /\ Len(listing[2]) > 0 /\ Failed(2) = {}) =>
        /\ raised = NoError \/ raised.phase > 2
        /\ \A i \in Items(2) :
              /\ Exists(C15_TablePath(subm[2][i]))
              /\ disk[C15_TablePath(subm[2][i])].kind =
                    (IF st[2][i] = "empty" THEN "empty" ELSE "table")

\* C15 witness: the database phase has completed over two databases, one
\* whose fetch raised TypeError and one with rows; both tables are on disk.
C15_Witness ==
    /\ phase = 3
    /\ Len(st[2]) = 2
    /\ \E i, j \in Items(2) :
        /\ st[2][i] = "empty"
        /\ st[2][j] = "ok"
        /\ subm[2][j] \in described
        /\ disk[C15_TablePath(subm[2][i])].kind = "empty"
        /\ disk[C15_TablePath(subm[2][j])].kind = "table"

\* the transitions the claim allows a file's fetch, from state a to state b;
\* pending is "unsubmitted"/"queued", downloading is "downloading"/"writing"
\* (the GET is in flight / its body is being copied), complete is "ok"
C16_Allowed(a, b, id) ==
    CASE a = "unsubmitted" -> b = "queued"
      [] a = "queued"      -> \/ b = "resolving"
                              \/ /\ b = "skipped"
                                 /\ [dir |-> "files", id |-> id, ext |-> ""] \in DOMAIN disk
      [] a = "resolving"   -> b \in {"downloading", "failed"}
      [] a = "downloading" -> b \in {"writing", "failed"}
      [] a = "writing"     -> b \in {"ok", "failed"}
      [] OTHER             -> FALSE

\* C16: within one run every listed file follows only the transitions
\* pending -> resolving-url -> downloading -> complete, pending -> skipped
\* (only when the local copy exists) or resolving-url/downloading -> failed;
\* complete, skipped and failed are terminal, so no fetch runs twice and a
\* failed fetch is never retried.
C16_FileStateMachine ==
    [][\A i \in Items(FilePhase) :
        /\ Len(st'[FilePhase]) = Len(st[FilePhase])
        /\ subm'[FilePhase] = subm[FilePhase]
        /\ \/ st'[FilePhase][i] = st[FilePhase][i]
           \/ C16_Allowed(st[FilePhase][i], st'[FilePhase][i], subm[FilePhase][i])]_vars

\* C16 witness: the file phase was aborted with one file complete (it went
\* through every state) and the other failed after its URL was requested.
C16_Witness ==
    /\ pc = "aborted"
    /\ phase = FilePhase
    /\ \E i, j \in Items(FilePhase) :
        /\ st[FilePhase][i] = "ok"
        /\ i \in opened
        /\ st[FilePhase][j] = "failed"
        /\ subm[FilePhase][j] \in urlReqs
        /\ subm[FilePhase][j] # subm[FilePhase][i]

\* C17 (as claimed): a phase whose listing call returns zero items completes
\* successfully: its manifest with zero rows is written, no fetch is
\* submitted, no error is raised and the run goes on to the next phase.
C17_EmptyListingCompletes ==
    \A p \in Phases : (listed[p] /\ Len(listing[p]) = 0) =>
        /\ raised = NoError
        /\ pc # "aborted"
        /\ Exists(ManifestPath(p))
        /\ disk[ManifestPath(p)] = ManifestOf(<<>>)
        /\ st[p] = <<>>

\* the directory the claim gives phase p
C18_OwnDir(p) ==
    CASE p = 1 -> "workspaces"
      [] p = 2 -> "databases"
      [] p = 3 -> "notebooks"
      [] p = 4 -> "files"

\* paths created or rewritten by a step
C18_Written ==
    {path \in DOMAIN disk' : path \notin DOMAIN disk \/ disk'[path] # disk[path]}

\* C18: when the file listing returns pairwise distinct ids, no two workers
\* of the file-export phase have the same local path open for writing at
\* the same time; and every step of the run writes only inside the
\* directory of the phase it belongs to and removes nothing.
C18_NoSharedWrites ==
    /\ []((\A a, b \in 1..Len(listing[FilePhase]) :
                a # b => listing[FilePhase][a] # listing[FilePhase][b])
            => \A i, j \in Items(FilePhase) :
                (i # j /\ st[FilePhase][i] = "writing" /\ st[FilePhase][j] = "writing")
                    => subm[FilePhase][i] # subm[FilePhase][j])
    /\ [][/\ DOMAIN disk \subseteq DOMAIN disk'
          /\ \A path \in C18_Written : path.dir = C18_OwnDir(phase)]_vars

\* C18 witness: two workers of the file-export phase are writing at the
\* same time, each its own path, after the three earlier phases wrote theirs.
C18_Witness ==
    /\ phase = FilePhase
    /\ \E i, j \in Items(FilePhase) :
        /\ i # j
        /\ st[FilePhase][i] = "writing"
        /\ st[FilePhase][j] = "writing"
        /\ subm[FilePhase][i] # subm[FilePhase][j]
    /\ \E path \in DOMAIN disk : path.dir = "notebooks" /\ path.id # 0

\* <outdir>/files/<id>
C19_LocalPath(id) == [dir |-> "files", id |-> id, ext |-> ""]

\* C19: a data file that was in the shared files directory when the run
\* started is never modified, truncated or deleted: at every moment, and so
\* after the file-export phase whether it succeeds or aborts, its content is
\* what the earlier run left (a partial file included); no request is
\* issued for a listed id whose path pre-exists, its fetch is skipped.
C19_PreexistingUntouched ==
    /\ \A id \in preexisting :
        /\ Exists(C19_LocalPath(id))
        /\ disk[C19_LocalPath(id)] = PreviousFile(id)
        /\ id \notin urlReqs
        /\ id \notin getReqs
    /\ \A i \in Items(FilePhase) :
        (subm[FilePhase][i] \in preexisting /\ Began(FilePhase, i))
            => (st[FilePhase][i] = "skipped" /\ i \notin opened)

\* C19 witness: the file-export phase was aborted by a failed download while
\* the fetch of a listed file that pre-existed was skipped; that file still
\* holds what the earlier run left.
C19_Witness ==
    /\ pc = "aborted"
    /\ phase = FilePhase
    /\ \E i, j \in Items(FilePhase) :
        /\ subm[FilePhase][i] \in preexisting
        /\ st[FilePhase][i] = "skipped"
        /\ st[FilePhase][j] = "failed"
        /\ disk[C19_LocalPath(subm[FilePhase][i])] = PreviousFile(subm[FilePhase][i])

\* the artifact the claim expects for item id of phase p
C20_Path(p, id) ==
    [dir |-> CASE p = 1 -> "workspaces" [] p = 2 -> "databases" [] OTHER -> "notebooks",
     id |-> id,
     ext |-> IF p = 2 THEN ".csv" ELSE ".json"]

\* C20: in the workspace, database and notebook phases every artifact on
\* disk is named by the id of the item whose fetch produced its payload:
\* it holds the payload of the fetch submitted for exactly that id, that
\* fetch succeeded and was collected, whatever the order of completion.
C20_ArtifactMatchesId ==
    \A p \in 1..3 :
        /\ \A path \in DOMAIN disk : (path.dir = C20_Path(p, 0).dir /\ path.id # 0) =>
            /\ disk[path].id = path.id
            /\ \E i \in collected[p] :
                /\ subm[p][i] = path.id
                /\ st[p][i] \in {"ok", "empty"}
                /\ disk[path].kind = (CASE p # 2 -> "json"
                                        [] p = 2 /\ st[p][i] = "empty" -> "empty"
                                        [] OTHER -> "table")
        /\ \A i \in collected[p] : Exists(C20_Path(p, subm[p][i]))

\* C20 witness: the fetch submitted second completed and was collected
\* first; its artifact is on disk under its own id while the first
\* submitted fetch is still running.
C20_Witness ==
    \E p \in 1..3 :
        /\ phase = p
        /\ Len(st[p]) = 2
        /\ collected[p] = {2}
        /\ st[p][1] = "running"
        /\ Exists(C20_Path(p, subm[p][2]))
        /\ disk[C20_Path(p, subm[p][2])].id = subm[p][2]
        /\ ~Exists(C20_Path(p, subm[p][1]))

====
